---- MODULE Spec2Model ----
(***************************************************************************)
(* biopsy: tiles and segmentation masks from annotated pyramidal slides.   *)
(*                                                                         *)
(* The module models                                                       *)
(*   - annotation.py:      Annotation, AnnotationCollection,               *)
(*                         AnnotationParser                                *)
(*   - annotated_slide.py: AnnotatedSlide.read_region / build_tiles        *)
(*   - tile_builder.py:    TileBuilder.build (a generator) and its helpers *)
(*                                                                         *)
(* Images are modelled by their size and the set of their opaque pixels    *)
(* (alpha = 255); every other pixel is fully transparent (alpha = 0).      *)
(* Polygons are axis-aligned rectangles given by their four corners.       *)
(***************************************************************************)
EXTENDS Integers, Sequences, FiniteSets, TLC

VARIABLES
    annotations,   \* AnnotationCollection._annotations: the Annotation objects
    parsed,        \* outcome of building the collection: "none", "ok", "ValueError"
    properties,    \* slide source: level -> text of openslide.level[l].downsample
    strictCrop,    \* raster library: TRUE when Image.crop rejects an inverted box
    dimensions,    \* slide source: <<width, height>> at level 0
    glassFrom,     \* slide content: level-0 columns x >= glassFrom are bright glass
    result,        \* the last call made on the annotation layer and what it gave
    builders,      \* TileBuilder objects: their instance fields
    gens           \* generators returned by TileBuilder.build, one per call

vars == <<annotations, parsed, properties, strictCrop, dimensions, glassFrom,
          result, builders, gens>>

-----------------------------------------------------------------------------
(* Bounds of the model *)

\* zoom levels 0..MaxLevel
MaxLevel == 1
\* viewstate records in an annotation tree
MaxViewstates == 2

Levels == 0..MaxLevel

-----------------------------------------------------------------------------
(* Arithmetic helpers *)

Pow2(n) == 2 ^ n

Max(a, b) == IF a >= b THEN a ELSE b

Min(a, b) == IF a <= b THEN a ELSE b

\* Python's a // b for b > 0: the floor of a / b, also for negative a
FloorDiv(a, b) == IF a >= 0 THEN a \div b ELSE -((-a + b - 1) \div b)

\* Python's round(num / den) for den > 0: round half to even
RoundHalfEven(num, den) ==
    LET q == FloorDiv(num, den)
        r == num - q * den
    IN  IF 2 * r < den THEN q
        ELSE IF 2 * r > den THEN q + 1
        ELSE IF q % 2 = 0 THEN q ELSE q + 1

SeqMin(s) == CHOOSE m \in {s[i] : i \in DOMAIN s} : \A i \in DOMAIN s : m <= s[i]

SeqMax(s) == CHOOSE m \in {s[i] : i \in DOMAIN s} : \A i \in DOMAIN s : m >= s[i]

-----------------------------------------------------------------------------
(* annotation.py: Annotation *)

\* self._rendered = None
NoMask == [level |-> -1, size |-> <<0, 0>>]

\* margin = 2 ** 4
BoundsMargin == 16

\* a bounding box with the whole margin on the near sides
ComputeBoundsUncentred(pixel_points) ==
    LET xs == [i \in DOMAIN pixel_points |-> pixel_points[i][1]]
        ys == [i \in DOMAIN pixel_points |-> pixel_points[i][2]]
    IN  [location |-> <<SeqMin(xs) - BoundsMargin, SeqMin(ys) - BoundsMargin>>,
         size |-> <<SeqMax(xs) - SeqMin(xs) + BoundsMargin,
                    SeqMax(ys) - SeqMin(ys) + BoundsMargin>>]

\* Annotation._compute_bounds
ComputeBounds(pixel_points) ==
    LET xs == [i \in DOMAIN pixel_points |-> pixel_points[i][1]]
        ys == [i \in DOMAIN pixel_points |-> pixel_points[i][2]]
        min_x == SeqMin(xs)
        max_x == SeqMax(xs)
        min_y == SeqMin(ys)
        max_y == SeqMax(ys)
    IN  [location |-> <<min_x - (BoundsMargin \div 2), min_y - (BoundsMargin \div 2)>>,
         size |-> <<max_x - min_x + BoundsMargin, max_y - min_y + BoundsMargin>>]

\* Annotation.__init__
NewAnnotation(pixel_points) ==
    [pixel_points |-> pixel_points,
     location |-> ComputeBounds(pixel_points).location,
     size |-> ComputeBounds(pixel_points).size,
     rendered |-> NoMask,
     current_level |-> -1]

\* Annotation._box_ranges
BoxRanges(location, size) ==
    <<  <<location[1], location[1] + size[1]>>,
        <<location[2], location[2] + size[2]>>  >>

\* an overlap test that is strict on one side of the x axis
OverlapHalfStrict(location, size, other_location, other_size) ==
    LET a == BoxRanges(location, size)
        b == BoxRanges(other_location, other_size)
        x_ovelap == a[1][1] < b[1][2] /\ b[1][1] <= a[1][2]
        y_ovelap == a[2][1] <= b[2][2] /\ b[2][1] <= a[2][2]
    IN  x_ovelap /\ y_ovelap

\* Annotation.overlap, with self's bounding box passed explicitly
Overlap(location, size, other_location, other_size) ==
    LET a == BoxRanges(location, size)
        b == BoxRanges(other_location, other_size)
        x_ovelap == a[1][1] <= b[1][2] /\ b[1][1] <= a[1][2]
        y_ovelap == a[2][1] <= b[2][2] /\ b[2][1] <= a[2][2]
    IN  x_ovelap /\ y_ovelap

\* a setter that keeps the cached mask when the level changes
SetCurrentLevelKeepsMask(ann, value) == [ann EXCEPT !.current_level = value]

\* the current_level setter: a new level clears the cached mask
SetCurrentLevel(ann, value) ==
    IF ann.current_level = value THEN ann
    ELSE [ann EXCEPT !.current_level = value, !.rendered = NoMask]

\* Annotation._a_relative_to_b: <<x1, y1, x2, y2>>
ARelativeToB(loc_a, size_a, loc_b, size_b) ==
    <<Max(loc_a[1] - loc_b[1], 0),
      Max(loc_a[2] - loc_b[2], 0),
      Min(loc_a[1] - loc_b[1] + size_a[1], size_b[1]),
      Min(loc_a[2] - loc_b[2] + size_a[2], size_b[2])>>

\* the pixels of a raster of the given size
Raster(size) == (0..(size[1] - 1)) \X (0..(size[2] - 1))

\* Annotation._render, the geometry: the level-scaled, box-relative points
PointsBoxRelative(ann, level) ==
    [i \in DOMAIN ann.pixel_points |->
        <<FloorDiv(ann.pixel_points[i][1] - ann.location[1], Pow2(level)),
          FloorDiv(ann.pixel_points[i][2] - ann.location[2], Pow2(level))>>]

RenderSize(ann, level) ==
    <<FloorDiv(ann.size[1], Pow2(level)), FloorDiv(ann.size[2], Pow2(level))>>

\* Annotation._render, the pixels: the closed polyline through the points is
\* drawn opaque, the transparent area connected to the seed (0, 0) is filled
\* opaque, then alpha is inverted.  For the rectangular polygons of the model
\* the polyline is the rectangle's outline (its centre line; which second row
\* the width-2 stroke covers is the rasteriser's choice).  A seed that is
\* already opaque makes floodfill return at once.
RenderPixels(ann, level) ==
    LET pts  == PointsBoxRelative(ann, level)
        size == RenderSize(ann, level)
        xs   == [i \in DOMAIN pts |-> pts[i][1]]
        ys   == [i \in DOMAIN pts |-> pts[i][2]]
        x1   == SeqMin(xs)
        x2   == SeqMax(xs)
        y1   == SeqMin(ys)
        y2   == SeqMax(ys)
        line == {p \in ((x1..x2) \X {y1, y2}) \cup ({x1, x2} \X (y1..y2)) :
                    p \in Raster(size)}
        inside == ((x1 + 1)..Min(x2 - 1, size[1] - 1))
                    \X ((y1 + 1)..Min(y2 - 1, size[2] - 1))
    IN  IF <<0, 0>> \in line THEN Raster(size) \ line ELSE inside

\* the rendered property, line 26: no mask is cached, so _render is called
Renders(ann) == ann.rendered = NoMask

\* the rendered property: render at current_level unless a mask is cached
Rendered(ann) ==
    IF ann.rendered # NoMask THEN ann
    ELSE [ann EXCEPT !.rendered = [level |-> ann.current_level,
                                   size |-> RenderSize(ann, ann.current_level)]]

\* Annotation.render_region, lines 84-90: the crop box in the annotation's mask
CropBox(ann, region_location, level, region_size) ==
    LET d == Pow2(level)
        r == ARelativeToB(region_location, <<region_size[1] * d, region_size[2] * d>>,
                          ann.location, ann.size)
    IN  <<FloorDiv(r[1], d), FloorDiv(r[2], d), FloorDiv(r[3], d), FloorDiv(r[4], d)>>

\* Annotation.render_region, lines 98-103: the paste offset in the region
PasteOffset(ann, region_location, level, region_size) ==
    LET d == Pow2(level)
        r == ARelativeToB(ann.location, ann.size, region_location,
                          <<region_size[1] * d, region_size[2] * d>>)
    IN  <<FloorDiv(r[1], d), FloorDiv(r[2], d)>>

\* Image.crop is given a box with right < left or lower < upper
Inverted(box) == box[3] < box[1] \/ box[4] < box[2]

\* Image.crop(box) of an image with the given opaque pixels, box not inverted
Crop(opaque, box) ==
    {<<p[1] - box[1], p[2] - box[2]>> :
        p \in {q \in opaque : /\ box[1] <= q[1] /\ q[1] < box[3]
                              /\ box[2] <= q[2] /\ q[2] < box[4]}}

\* canvas.paste(image, offset, image) onto a canvas: the pasted opaque pixels
\* that fall inside the canvas
Paste(opaque, offset, canvas_size) ==
    {<<p[1] + offset[1], p[2] + offset[2]>> : p \in opaque} \cap Raster(canvas_size)

\* Annotation.render_region: the annotation after the call (level set, mask
\* rendered; both happen before the crop)
AnnRenderRegionState(ann, level) == Rendered(SetCurrentLevel(ann, level))

\* Annotation.render_region: whether the call raises in Image.crop
AnnRenderRegionRaises(ann, region_location, level, region_size, strict) ==
    strict /\ Inverted(CropBox(ann, region_location, level, region_size))

\* Annotation.render_region: the returned image (when it does not raise)
AnnRenderRegionMask(ann, region_location, level, region_size) ==
    LET after == AnnRenderRegionState(ann, level)
        box   == CropBox(ann, region_location, level, region_size)
        crop  == IF Inverted(box) THEN {}
                 ELSE Crop(RenderPixels(after, after.rendered.level), box)
    IN  [size |-> region_size,
         opaque |-> Paste(crop, PasteOffset(ann, region_location, level, region_size),
                          region_size)]

-----------------------------------------------------------------------------
(* annotation.py: AnnotationCollection *)

\* the image a failed call does not return
NoImage == [size |-> <<0, 0>>, opaque |-> {}]

\* the query box of render_region scaled to level 0
SizeLevel0(size, level) == <<size[1] * Pow2(level), size[2] * Pow2(level)>>

\* a loop that renders every annotation, overlapping or not
OverlappingAll(anns, location, level, size) == DOMAIN anns

\* line 204: the annotations the loop renders
Overlapping(anns, location, level, size) ==
    {i \in DOMAIN anns :
        Overlap(anns[i].location, anns[i].size, location, SizeLevel0(size, level))}

\* the first annotation of the loop whose render_region raises, 0 when none does
RaisesAt(anns, location, level, size, strict) ==
    LET bad == {i \in Overlapping(anns, location, level, size) :
                    AnnRenderRegionRaises(anns[i], location, level, size, strict)}
    IN  IF bad = {} THEN 0 ELSE CHOOSE i \in bad : \A j \in bad : i <= j

\* AnnotationCollection.render_region: "NotImplementedError" for a non-square
\* size, before anything else happens
CollStatus(anns, location, level, size, strict) ==
    IF size[1] # size[2] THEN "NotImplementedError"
    ELSE IF RaisesAt(anns, location, level, size, strict) # 0 THEN "ValueError"
    ELSE "ok"

\* a collection that renders before it checks the shape
CollAnnotationsUnchecked(anns, location, level, size, strict) ==
    [i \in DOMAIN anns |->
        IF i \in Overlapping(anns, location, level, size)
        THEN AnnRenderRegionState(anns[i], level)
        ELSE anns[i]]

\* AnnotationCollection.render_region: the annotations after the call
CollAnnotations(anns, location, level, size, strict) ==
    LET stop == RaisesAt(anns, location, level, size, strict)
    IN  IF size[1] # size[2] THEN anns
        ELSE [i \in DOMAIN anns |->
                IF /\ i \in Overlapping(anns, location, level, size)
                   /\ (stop = 0 \/ i <= stop)
                THEN AnnRenderRegionState(anns[i], level)
                ELSE anns[i]]

\* AnnotationCollection.render_region: the combined mask of a call that returns
CollMask(anns, location, level, size) ==
    [size |-> size,
     opaque |-> UNION {AnnRenderRegionMask(anns[i], location, level, size).opaque :
                          i \in Overlapping(anns, location, level, size)}]

-----------------------------------------------------------------------------
(* annotation.py: AnnotationParser *)

\* AnnotationParser.__init__: the slide's calibration (mpp 0.25 is 250 nm)
Calibration ==
    [dimensions |-> <<64, 64>>, nm_per_pixel |-> <<250, 250>>, offset |-> <<500, -500>>]

\* AnnotationParser._physical_cord2level0:
\* round((coord - offset) / (mpp * 1000) + dimension / 2)
PhysicalCord2Level0(coord, dimension) ==
    RoundHalfEven(2 * (coord - Calibration.offset[dimension])
                    + Calibration.dimensions[dimension] * Calibration.nm_per_pixel[dimension],
                  2 * Calibration.nm_per_pixel[dimension])

\* AnnotationParser._physical_point2level0
PhysicalPoint2Level0(point) ==
    <<PhysicalCord2Level0(point[1], 1), PhysicalCord2Level0(point[2], 2)>>

\* a parser that rejects only closed = 0
ViewstateRaisesOnZero(viewstate) == viewstate.closed = 0 \/ viewstate.pointlist = <<>>

\* AnnotationParser._parse_viewstate raises ValueError: the polygon is not
\* closed, or Annotation.__init__ cannot unpack an empty point list
ViewstateRaises(viewstate) == viewstate.closed # 1 \/ viewstate.pointlist = <<>>

\* AnnotationParser._parse_viewstate, when it returns
ParseViewstate(viewstate) ==
    NewAnnotation([i \in DOMAIN viewstate.pointlist |->
                      PhysicalPoint2Level0(viewstate.pointlist[i])])

\* AnnotationParser.parse: the status of the call
ParseStatus(root) ==
    IF \E i \in DOMAIN root : ViewstateRaises(root[i]) THEN "ValueError" ELSE "ok"

\* AnnotationParser.parse: the collection of a call that returns
ParseAnnotations(root) == [i \in DOMAIN root |-> ParseViewstate(root[i])]

-----------------------------------------------------------------------------
(* annotated_slide.py: AnnotatedSlide.read_region *)

\* int(text) of a property text "whole" or "whole.frac": not a number for int()
\* unless the text is a plain integer
IntRaises(text) == text.frac # 0

\* lines 57-60: the calibration check raises ValueError
CalibrationRaises(props, level) ==
    IntRaises(props[level]) \/ Pow2(level) # props[level].whole

\* AnnotatedSlide.read_region: the status of the call
ReadStatus(props, anns, location, level, size, strict) ==
    IF CalibrationRaises(props, level) THEN "ValueError"
    ELSE CollStatus(anns, location, level, size, strict)

\* a read_region that renders the mask before it validates the downsample
ReadAnnotationsUnvalidated(props, anns, location, level, size, strict) ==
    CollAnnotations(anns, location, level, size, strict)

\* AnnotatedSlide.read_region: the annotations after the call
ReadAnnotations(props, anns, location, level, size, strict) ==
    IF CalibrationRaises(props, level) THEN anns
    ELSE CollAnnotations(anns, location, level, size, strict)

-----------------------------------------------------------------------------
(* Inputs of the annotation layer *)

\* a rectangle's corners as a closed polygon
Rect(x1, y1, x2, y2) == << <<x1, y1>>, <<x2, y1>>, <<x2, y2>>, <<x1, y2>> >>

\* point lists in physical coordinates (nm from the slide centre): the
\* rectangle of pixels (16,16)-(20,20), one whose corners fall half-way
\* between two pixels, (40,16)-(44,22), and an empty list
PointLists ==
    {Rect(-3500, -4500, -2500, -3500), Rect(2500, -4500, 3375, -3125), <<>>}

Viewstates == [closed : {0, 1, 2}, pointlist : PointLists]

Trees == UNION {[1..n -> Viewstates] : n \in 0..MaxViewstates}

Closed(pointlist) == [closed |-> 1, pointlist |-> pointlist]

\* the annotation trees of the slides that are queried
SlideTrees ==
    {<<Closed(Rect(-3500, -4500, -2500, -3500))>>,
     <<Closed(Rect(-3500, -4500, -2500, -3500)),
       Closed(Rect(2500, -4500, 3375, -3125))>>}

\* query boxes for overlap, in level-0 pixels
BoxLocations == {<<0, 0>>, <<4, 10>>, <<28, 28>>, <<29, 20>>, <<30, 0>>, <<52, 30>>}

BoxSizes == {<<0, 0>>, <<2, 2>>, <<4, 2>>, <<8, 8>>}

\* region locations in level-0 pixels
Locations == {<<0, 0>>, <<16, 16>>, <<29, 20>>}

SquareSizes == {<<2, 2>>, <<4, 4>>}

Sizes == SquareSizes \cup {<<4, 2>>}

\* the text of a downsample property that is right
RightText(level) == [whole |-> Pow2(level), frac |-> 0]

\* the slide source's tables of downsample properties: all right, a wrong
\* integer at the top level, a text that is no integer at level 0
PropertyTables ==
    {[l \in Levels |-> RightText(l)],
     [l \in Levels |-> IF l = MaxLevel THEN [whole |-> Pow2(l) + 1, frac |-> 0]
                       ELSE RightText(l)],
     [l \in Levels |-> IF l = 0 THEN [whole |-> 1, frac |-> 5] ELSE RightText(l)]}

NoResult ==
    [op |-> "none", index |-> 0, location |-> <<0, 0>>, level |-> 0,
     size |-> <<0, 0>>, root |-> <<>>, status |-> "none", value |-> FALSE,
     mask |-> NoImage]

-----------------------------------------------------------------------------
(* The annotation layer *)

NoBuilds == /\ builders = <<>>
            /\ gens = <<>>

Environment ==
    /\ properties \in PropertyTables
    /\ strictCrop \in BOOLEAN
    /\ dimensions = Calibration.dimensions
    /\ glassFrom = Calibration.dimensions[1]

\* before read_ndpa: nothing parsed yet
InitParser ==
    /\ annotations = <<>>
    /\ parsed = "none"
    /\ result = NoResult
    /\ Environment
    /\ NoBuilds

\* after read_annotated_slide: an AnnotatedSlide with its parsed collection
InitAnnotations ==
    /\ annotations \in {ParseAnnotations(root) : root \in SlideTrees}
    /\ parsed = "ok"
    /\ result = NoResult
    /\ Environment
    /\ NoBuilds

\* read_ndpa / AnnotationParser.parse(root)
Parse(root) ==
    /\ parsed = "none"
    /\ parsed' = ParseStatus(root)
    /\ annotations' = IF ParseStatus(root) = "ok" THEN ParseAnnotations(root) ELSE <<>>
    /\ result' = [NoResult EXCEPT !.op = "parse", !.root = root,
                                  !.status = ParseStatus(root)]
    /\ UNCHANGED <<properties, strictCrop, dimensions, glassFrom, builders, gens>>

\* annotations[i].overlap(location, size)
AnnotationOverlap(i, location, size) ==
    /\ parsed = "ok"
    /\ i \in DOMAIN annotations
    /\ result' = [NoResult EXCEPT
                    !.op = "overlap", !.index = i, !.location = location,
                    !.size = size, !.status = "ok",
                    !.value = Overlap(annotations[i].location, annotations[i].size,
                                      location, size)]
    /\ UNCHANGED <<annotations, parsed, properties, strictCrop, dimensions,
                   glassFrom, builders, gens>>

\* annotations[i].render_region(location, level, size)
AnnotationRenderRegion(i, location, level, size) ==
    /\ parsed = "ok"
    /\ i \in DOMAIN annotations
    /\ LET raises == AnnRenderRegionRaises(annotations[i], location, level, size,
                                           strictCrop)
       IN  /\ annotations' =
                [annotations EXCEPT ![i] = AnnRenderRegionState(annotations[i], level)]
           /\ result' = [NoResult EXCEPT
                    !.op = "annotation.render_region", !.index = i,
                    !.location = location, !.level = level, !.size = size,
                    !.status = IF raises THEN "ValueError" ELSE "ok",
                    !.mask = IF raises THEN NoImage
                             ELSE AnnRenderRegionMask(annotations[i], location,
                                                      level, size)]
    /\ UNCHANGED <<parsed, properties, strictCrop, dimensions, glassFrom,
                   builders, gens>>

\* AnnotationCollection.render_region(location, level, size)
CollectionRenderRegion(location, level, size) ==
    /\ parsed = "ok"
    /\ LET status == CollStatus(annotations, location, level, size, strictCrop)
       IN  /\ annotations' =
                CollAnnotations(annotations, location, level, size, strictCrop)
           /\ result' = [NoResult EXCEPT
                    !.op = "collection.render_region",
                    !.location = location, !.level = level, !.size = size,
                    !.status = status,
                    !.mask = IF status = "ok"
                             THEN CollMask(annotations, location, level, size)
                             ELSE NoImage]
    /\ UNCHANGED <<parsed, properties, strictCrop, dimensions, glassFrom,
                   builders, gens>>

\* AnnotatedSlide.read_region(location, level, size)
ReadRegion(location, level, size) ==
    /\ parsed = "ok"
    /\ LET status == ReadStatus(properties, annotations, location, level, size,
                                strictCrop)
       IN  /\ annotations' = ReadAnnotations(properties, annotations, location,
                                             level, size, strictCrop)
           /\ result' = [NoResult EXCEPT
                    !.op = "read_region",
                    !.location = location, !.level = level, !.size = size,
                    !.status = status,
                    !.mask = IF status = "ok"
                             THEN CollMask(annotations, location, level, size)
                             ELSE NoImage]
    /\ UNCHANGED <<parsed, properties, strictCrop, dimensions, glassFrom,
                   builders, gens>>

NextParser ==
    \/ \E root \in Trees : Parse(root)
    \/ \E i \in 1..MaxViewstates, location \in BoxLocations, size \in BoxSizes :
            AnnotationOverlap(i, location, size)

SpecParser == InitParser /\ [][NextParser]_vars

NextAnnotations ==
    \/ \E i \in 1..MaxViewstates, location \in Locations, level \in Levels,
          size \in Sizes : AnnotationRenderRegion(i, location, level, size)
    \/ \E location \in Locations, level \in Levels, size \in Sizes :
            CollectionRenderRegion(location, level, size)
    \/ \E location \in Locations, level \in Levels, size \in Sizes :
            ReadRegion(location, level, size)

SpecAnnotations == InitAnnotations /\ [][NextAnnotations]_vars

-----------------------------------------------------------------------------
(* Single annotations, constructed directly and rendered at any level *)

\* zoom levels 0..MaxRenderLevel at which a single annotation is rendered
MaxRenderLevel == 4

RenderLevels == 0..MaxRenderLevel

\* polygons in level-0 pixels: the rectangle (16,16)-(20,20), the same
\* rectangle listed from its far corner, a tall one, a rectangle that starts
\* left of the slide's origin, and a wider one
PixelPointLists ==
    {Rect(16, 16, 20, 20),
     << <<20, 20>>, <<16, 20>>, <<16, 16>>, <<20, 16>> >>,
     Rect(5, 7, 9, 40),
     Rect(-3, 0, 30, 12),
     Rect(16, 16, 72, 56)}

\* before any Annotation exists
InitShapes ==
    /\ annotations = <<>>
    /\ parsed = "none"
    /\ result = NoResult
    /\ Environment
    /\ NoBuilds

\* AnnotationCollection([Annotation(pixel_points)])
Construct(pixel_points) ==
    /\ parsed = "none"
    /\ annotations' = <<NewAnnotation(pixel_points)>>
    /\ parsed' = "ok"
    /\ result' = [NoResult EXCEPT !.op = "construct", !.index = 1, !.status = "ok"]
    /\ UNCHANGED <<properties, strictCrop, dimensions, glassFrom, builders, gens>>

NextShapes ==
    \/ \E pixel_points \in PixelPointLists : Construct(pixel_points)
    \/ \E location \in Locations, level \in RenderLevels, size \in Sizes :
            AnnotationRenderRegion(1, location, level, size)

SpecShapes == InitShapes /\ [][NextShapes]_vars

-----------------------------------------------------------------------------
(* tile_builder.py: TileBuilder *)

\* MOSTLY_WHITE_THRESHOLD = 0.70, in percent
MOSTLY_WHITE_THRESHOLD == 70

ROTATIONS == <<15, 30, 45>>

\* ceil(a / b) for b > 0
CeilDiv(a, b) == -FloorDiv(-a, b)

\* line 51: (tile_size - int(tile_size * overlap)) * 2 ** level, the overlap
\* given in quarters (0.0, 0.25, 0.5, 0.75, 1.0 are exact as floats)
Stride(level, tile_size, overlap) ==
    (tile_size - ((tile_size * overlap) \div 4)) * Pow2(level)

\* a margin that is truncated, not rounded up
RotationMarginTruncated(tile_size) ==
    (tile_size * 707107 - tile_size * 500000) \div 1000000

\* line 52: int(ceil(tile_size * 0.5 ** 0.5 - tile_size / 2)), with
\* 0.5 ** 0.5 = 0.707107 to six places (the same integer as the float
\* expression gives for every tile_size below 2786)
RotationMargin(tile_size) ==
    CeilDiv(tile_size * 707107 - tile_size * 500000, 1000000)

\* TileBuilder.__init__: the session fields are declared, not set
UnsetFields ==
    [level |-> 0, tile_size |-> 0, tile_size_level_0 |-> 0, stride |-> 0,
     rotation_margin |-> 0, rotation_margin_level_0 |-> 0,
     crop_coords |-> <<0, 0, 0, 0>>]

\* lines 48-59: the session fields build stores on self
SessionFields(level, tile_size, overlap) ==
    [level |-> level,
     tile_size |-> tile_size,
     tile_size_level_0 |-> tile_size * Pow2(level),
     stride |-> Stride(level, tile_size, overlap),
     rotation_margin |-> RotationMargin(tile_size),
     rotation_margin_level_0 |-> RotationMargin(tile_size) * Pow2(level),
     crop_coords |-> <<RotationMargin(tile_size), RotationMargin(tile_size),
                       tile_size + RotationMargin(tile_size),
                       tile_size + RotationMargin(tile_size)>>]

\* a grid that stops one tile early
RangeStopExclusive(extent, tile_size_level_0) == extent - tile_size_level_0

\* lines 62-63: the stop of range(0, extent - tile_size_level_0 + 1, stride)
RangeStop(extent, tile_size_level_0) == extent - tile_size_level_0 + 1

\* the slide source's pixels: the green channel is >= 220 exactly in the
\* level-0 columns x >= glassFrom; a region read at a level samples the
\* columns x, x + 2^level, ...  The number of bright columns among size[1].
BrightColumns(location, level, size) ==
    size[1] - Max(0, Min(size[1], CeilDiv(glassFrom - location[1], Pow2(level))))

\* a filter that keeps a tile at exactly the threshold
IsMostlyWhiteAbove(location, level, size) ==
    LET white == BrightColumns(location, level, size) * size[2]
        total == size[1] * size[2]
    IN  white * 100 > MOSTLY_WHITE_THRESHOLD * total

\* TileBuilder._is_mostly_white of the region read at (location, level, size):
\* sum(hist[220:]) / sum(hist) >= threshold
IsMostlyWhite(location, level, size) ==
    LET white == BrightColumns(location, level, size) * size[2]
        total == size[1] * size[2]
    IN  white * 100 >= MOSTLY_WHITE_THRESHOLD * total

\* a room check that forgets the left edge
RoomForRotationNoLeft(f, x, y) ==
    IF y - f.rotation_margin_level_0 < 0 THEN FALSE
    ELSE IF x + f.rotation_margin_level_0 + f.tile_size_level_0 > dimensions[1]
    THEN FALSE
    ELSE IF y + f.rotation_margin_level_0 + f.tile_size_level_0 > dimensions[2]
    THEN FALSE
    ELSE TRUE

\* a room check that forgets the lower edge
RoomForRotationNoLower(f, x, y) ==
    IF x - f.rotation_margin_level_0 < 0 THEN FALSE
    ELSE IF y - f.rotation_margin_level_0 < 0 THEN FALSE
    ELSE IF x + f.rotation_margin_level_0 + f.tile_size_level_0 > dimensions[1]
    THEN FALSE
    ELSE TRUE

\* TileBuilder._room_for_rotation, with the builder's fields f
RoomForRotation(f, x, y) ==
    IF x - f.rotation_margin_level_0 < 0 THEN FALSE
    ELSE IF y - f.rotation_margin_level_0 < 0 THEN FALSE
    ELSE IF x + f.rotation_margin_level_0 + f.tile_size_level_0 > dimensions[1]
    THEN FALSE
    ELSE IF y + f.rotation_margin_level_0 + f.tile_size_level_0 > dimensions[2]
    THEN FALSE
    ELSE TRUE

\* a generator that does not exist yet
NoGenerator ==
    [pc |-> "none", builder |-> 0,
     level |-> 0, tile_size |-> 0, overlap |-> 0, rotate |-> FALSE,
     width |-> 0, height |-> 0,
     x |-> 0, xnext |-> 0, xstop |-> 0, xstep |-> 0,
     y |-> 0, ynext |-> 0, ystop |-> 0, ystep |-> 0,
     k |-> 0, emitted |-> <<>>, reads |-> <<>>]

\* build(level, tile_size, overlap, rotate) on builder b: a generator whose
\* body has not started
NewGenerator(b, args) ==
    [NoGenerator EXCEPT !.pc = "created", !.builder = b, !.level = args.level,
                        !.tile_size = args.tile_size, !.overlap = args.overlap,
                        !.rotate = args.rotate]

\* The generator's steps act on m = [g, f, anns]: the generator, the fields of
\* its builder and the slide's annotations.

\* self._slide.read_region(location, self._level, size) inside the generator
\* read: the generator after a read that raises
GenRaised(m, location, size) ==
    [g |-> [m.g EXCEPT !.pc = "raised",
                       !.reads = Append(m.g.reads,
                                        <<location[1], location[2], m.f.level, size[1]>>)],
     f |-> m.f,
     anns |-> ReadAnnotations(properties, m.anns, location, m.f.level, size,
                              strictCrop)]

\* lines 48-62: the first next() stores the session on self and makes the
\* outer range; range() raises ValueError for a step of 0
StepStart(m) ==
    LET f == SessionFields(m.g.level, m.g.tile_size, m.g.overlap)
    IN  [m EXCEPT !.f = f,
                  !.g = [m.g EXCEPT
                            !.width = dimensions[1], !.height = dimensions[2],
                            !.xnext = 0,
                            !.xstop = RangeStop(dimensions[1], f.tile_size_level_0),
                            !.xstep = f.stride,
                            !.pc = IF f.stride = 0 THEN "raised" ELSE "outer"]]

\* line 62-63: the next x, and the inner range made from the fields on self
StepOuter(m) ==
    IF m.g.xnext >= m.g.xstop THEN [m EXCEPT !.g.pc = "done"]
    ELSE [m EXCEPT !.g = [m.g EXCEPT
                            !.x = m.g.xnext, !.xnext = m.g.xnext + m.g.xstep,
                            !.ynext = 0,
                            !.ystop = RangeStop(m.g.height, m.f.tile_size_level_0),
                            !.ystep = m.f.stride,
                            !.pc = IF m.f.stride = 0 THEN "raised" ELSE "inner"]]

\* lines 63-70: the next y, the base read, the filter and the base yield
StepInner(m) ==
    IF m.g.ynext >= m.g.ystop THEN [m EXCEPT !.g.pc = "outer"]
    ELSE LET y        == m.g.ynext
             location == <<m.g.x, y>>
             size     == <<m.f.tile_size, m.f.tile_size>>
             g        == [m.g EXCEPT !.y = y, !.ynext = y + m.g.ystep]
             at       == [m EXCEPT !.g = g]
         IN  IF ReadStatus(properties, m.anns, location, m.f.level, size,
                           strictCrop) # "ok"
             THEN GenRaised(at, location, size)
             ELSE [g |-> [g EXCEPT
                            !.reads = Append(m.g.reads,
                                             <<m.g.x, y, m.f.level, size[1]>>),
                            !.emitted = IF IsMostlyWhite(location, m.f.level, size)
                                        THEN m.g.emitted
                                        ELSE Append(m.g.emitted, <<m.g.x, y, 0>>),
                            !.pc = IF IsMostlyWhite(location, m.f.level, size)
                                   THEN "inner" ELSE "base"],
                   f |-> m.f,
                   anns |-> ReadAnnotations(properties, m.anns, location,
                                            m.f.level, size, strictCrop)]

\* lines 72-74 and 79-96 up to the first rotated yield
StepAfterBase(m) ==
    IF ~m.g.rotate THEN [m EXCEPT !.g.pc = "inner"]
    ELSE IF ~RoomForRotation(m.f, m.g.x, m.g.y) THEN [m EXCEPT !.g.pc = "inner"]
    ELSE LET location == <<m.g.x - m.f.rotation_margin_level_0,
                           m.g.y - m.f.rotation_margin_level_0>>
             size     == <<m.f.tile_size + 2 * m.f.rotation_margin,
                           m.f.tile_size + 2 * m.f.rotation_margin>>
         IN  IF ReadStatus(properties, m.anns, location, m.f.level, size,
                           strictCrop) # "ok"
             THEN GenRaised(m, location, size)
             ELSE [g |-> [m.g EXCEPT
                            !.reads = Append(m.g.reads,
                                             <<location[1], location[2],
                                               m.f.level, size[1]>>),
                            !.emitted = Append(m.g.emitted,
                                               <<m.g.x, m.g.y, ROTATIONS[1]>>),
                            !.k = 1,
                            !.pc = "rotation"],
                   f |-> m.f,
                   anns |-> ReadAnnotations(properties, m.anns, location,
                                            m.f.level, size, strictCrop)]

\* lines 93-96: the next angle, or the end of _build_rotations
StepAfterRotation(m) ==
    IF m.g.k < Len(ROTATIONS)
    THEN [m EXCEPT !.g.k = m.g.k + 1,
                   !.g.emitted = Append(m.g.emitted,
                                        <<m.g.x, m.g.y, ROTATIONS[m.g.k + 1]>>)]
    ELSE [m EXCEPT !.g.pc = "inner"]

\* the generator runs on until it yields, returns or raises
RECURSIVE RunToYield(_)
RunToYield(m) ==
    IF m.g.pc = "outer" THEN RunToYield(StepOuter(m))
    ELSE IF m.g.pc = "inner" THEN RunToYield(StepInner(m))
    ELSE m

\* next(generator): resume where the generator is suspended
Resume(m) ==
    RunToYield(IF m.g.pc = "created" THEN StepStart(m)
               ELSE IF m.g.pc = "base" THEN StepAfterBase(m)
               ELSE StepAfterRotation(m))

Suspended(g) == g.pc \in {"created", "base", "rotation"}

-----------------------------------------------------------------------------
(* Inputs of the tile builder *)

\* tiles are at least a MaxGrid-th of the slide's width
MaxGrid == 6

TileSizes == {10, 512}

\* overlap fractions in quarters: 0.0, 0.5, 1.0
Overlaps == {0, 2, 4}

BuildArgs ==
    [level : Levels, tile_size : TileSizes, overlap : Overlaps, rotate : BOOLEAN]

SlideDimensions == {<<20, 20>>, <<30, 23>>, <<23, 30>>, <<1024, 1024>>}

\* all glass, glass from a column on, no glass
GlassColumns == {0, 6, 13, 14, 2000}

Calls == {1, 2}

Builders == {1, 2}

Fits(args) == args.tile_size * Pow2(args.level) * MaxGrid >= dimensions[1]

-----------------------------------------------------------------------------
(* The tile builder *)

\* an AnnotatedSlide with two annotations, its builders constructed
InitBuild ==
    /\ annotations = ParseAnnotations(<<Closed(Rect(-3500, -4500, -2500, -3500)),
                                        Closed(Rect(2500, -4500, 3375, -3125))>>)
    /\ parsed = "ok"
    /\ result = NoResult
    /\ properties \in PropertyTables
    /\ strictCrop \in BOOLEAN
    /\ dimensions \in SlideDimensions
    /\ glassFrom \in GlassColumns
    /\ builders = [b \in Builders |-> UnsetFields]
    /\ gens = [c \in Calls |-> NoGenerator]

\* TileBuilder.build(args) called on builder b: call c gets its generator
Build(c, b, args) ==
    /\ gens[c].pc = "none"
    /\ Fits(args)
    /\ gens' = [gens EXCEPT ![c] = NewGenerator(b, args)]
    /\ UNCHANGED <<annotations, parsed, properties, strictCrop, dimensions,
                   glassFrom, result, builders>>

\* AnnotatedSlide.build_tiles(args): a new TileBuilder, then its build
BuildTiles(c, args) ==
    /\ gens[c].pc = "none"
    /\ Fits(args)
    /\ LET fresh == {b \in Builders : \A d \in Calls : gens[d].builder # b}
       IN  gens' = [gens EXCEPT
                      ![c] = NewGenerator(CHOOSE b \in fresh : \A e \in fresh : b <= e,
                                          args)]
    /\ UNCHANGED <<annotations, parsed, properties, strictCrop, dimensions,
                   glassFrom, result, builders>>

\* next() on the generator of call c
NextItem(c) ==
    /\ Suspended(gens[c])
    /\ LET m == Resume([g |-> gens[c], f |-> builders[gens[c].builder],
                        anns |-> annotations])
       IN  /\ gens' = [gens EXCEPT ![c] = m.g]
           /\ builders' = [builders EXCEPT ![gens[c].builder] = m.f]
           /\ annotations' = m.anns
    /\ UNCHANGED <<parsed, properties, strictCrop, dimensions, glassFrom, result>>

\* one build call, alone
NextBuild ==
    \/ \E args \in BuildArgs : Build(1, 1, args)
    \/ \E args \in BuildArgs : BuildTiles(1, args)
    \/ NextItem(1)

SpecBuild == InitBuild /\ [][NextBuild]_vars

\* the calls of the interleaved sessions
SessionArgs ==
    [level : Levels, tile_size : {10}, overlap : {0, 2}, rotate : BOOLEAN]

InitSessions ==
    /\ InitBuild
    /\ properties = [l \in Levels |-> RightText(l)]
    /\ ~strictCrop
    /\ dimensions = <<30, 23>>
    /\ glassFrom = 14

\* two build calls, started on one builder or on two, advanced in any order
NextSessions ==
    \/ \E c \in Calls, b \in Builders, args \in SessionArgs : Build(c, b, args)
    \/ \E c \in Calls, args \in SessionArgs : BuildTiles(c, args)
    \/ \E c \in Calls : NextItem(c)

SpecSessions == InitSessions /\ [][NextSessions]_vars

\* tile sizes 1..MaxTileSize of the calls that compute a rotation margin
MaxTileSize == 40

MarginArgs ==
    [level : Levels, tile_size : 1..MaxTileSize, overlap : {0}, rotate : BOOLEAN]

\* a small and a larger slide without glass, rightly calibrated
InitMargin ==
    /\ annotations = ParseAnnotations(<<Closed(Rect(-3500, -4500, -2500, -3500))>>)
    /\ parsed = "ok"
    /\ result = NoResult
    /\ properties = [l \in Levels |-> RightText(l)]
    /\ strictCrop = FALSE
    /\ dimensions \in {<<6, 6>>, <<24, 24>>}
    /\ glassFrom = dimensions[1]
    /\ builders = [b \in Builders |-> UnsetFields]
    /\ gens = [c \in Calls |-> NoGenerator]

\* one build call of any tile size, run to its end
NextMargin ==
    \/ \E args \in MarginArgs : Build(1, 1, args)
    \/ NextItem(1)

SpecMargin == InitMargin /\ [][NextMargin]_vars

-----------------------------------------------------------------------------
(* Properties of the annotation layer *)

\* the closed ranges [x, x + width] and [y, y + height] of two boxes meet
BoxesIntersect(loc_a, size_a, loc_b, size_b) ==
    /\ Max(loc_a[1], loc_b[1]) <= Min(loc_a[1] + size_a[1], loc_b[1] + size_b[1])
    /\ Max(loc_a[2], loc_b[2]) <= Min(loc_a[2] + size_a[2], loc_b[2] + size_b[2])

\* the annotations whose bounding box meets the level-0 extent of a region
Meeting(anns, location, level, size) ==
    {i \in DOMAIN anns :
        BoxesIntersect(anns[i].location, anns[i].size, location,
                       <<size[1] * Pow2(level), size[2] * Pow2(level)>>)}

\* C4: AnnotationCollection.render_region with size.width # size.height fails
\* with the unsupported-shape error at every location and level, returns no
\* mask and leaves every annotation's cached level and mask as they were.
C4_NonSquareFails ==
    [][(result'.op = "collection.render_region" /\ result'.size[1] # result'.size[2])
        => /\ result'.status = "NotImplementedError"
           /\ result'.mask = NoImage
           /\ annotations' = annotations]_vars

C4_Witness ==
    /\ result.op = "collection.render_region"
    /\ result.size[1] # result.size[2]
    /\ result.status = "NotImplementedError"
    /\ Meeting(annotations, result.location, result.level, result.size) # {}
    /\ \E i \in DOMAIN annotations : annotations[i].current_level # result.level

\* the pixel polygon each physical point list of the model stands for
ExpectedPixels(pointlist) ==
    IF pointlist = Rect(-3500, -4500, -2500, -3500)
    THEN Rect(16, 16, 20, 20)
    ELSE Rect(40, 16, 44, 22)

\* C5: AnnotationParser.parse fails with the malformed-annotation error and
\* yields no collection when any viewstate has closed # 1, whatever precedes
\* or follows it; when every record is well-formed the collection holds one
\* Annotation per viewstate, in input order.
C5_ParseAllOrNothing ==
    result.op = "parse" =>
        /\ (\E i \in DOMAIN result.root : result.root[i].closed # 1)
              => /\ result.status = "ValueError"
                 /\ parsed = "ValueError"
                 /\ annotations = <<>>
        /\ (\A i \in DOMAIN result.root :
                result.root[i].closed = 1 /\ result.root[i].pointlist # <<>>)
              => /\ result.status = "ok"
                 /\ parsed = "ok"
                 /\ Len(annotations) = Len(result.root)
                 /\ \A i \in DOMAIN result.root :
                        annotations[i].pixel_points
                            = ExpectedPixels(result.root[i].pointlist)

C5_Witness ==
    /\ result.op = "parse"
    /\ Len(result.root) = 2
    /\ result.root[1].closed = 1 /\ result.root[1].pointlist # <<>>
    /\ result.root[2].closed = 2 /\ result.root[2].pointlist # <<>>
    /\ result.status = "ValueError"
    /\ annotations = <<>>

\* C6: AnnotatedSlide.read_region fails with the calibration-mismatch error
\* whenever the declared downsample of the level is not exactly 2^level; then
\* no pair is returned and no annotation is rendered or changes its level.
C6_CalibrationMismatch ==
    [][(/\ result'.op = "read_region"
        /\ properties[result'.level] # [whole |-> 2 ^ result'.level, frac |-> 0])
        => /\ result'.status = "ValueError"
           /\ result'.mask = NoImage
           /\ annotations' = annotations]_vars

C6_Witness ==
    /\ result.op = "read_region"
    /\ properties[result.level] # [whole |-> 2 ^ result.level, frac |-> 0]
    /\ result.status = "ValueError"
    /\ result.size[1] = result.size[2]
    /\ \E i \in Meeting(annotations, result.location, result.level, result.size) :
            annotations[i].current_level # result.level

\* C7: AnnotationCollection.render_region with a square size, when no
\* annotation's bounding box overlaps the level-0 query box, returns an
\* all-transparent mask of the requested size and renders no annotation.
C7_NoOverlapTransparent ==
    [][(/\ result'.op = "collection.render_region"
        /\ result'.size[1] = result'.size[2]
        /\ Meeting(annotations, result'.location, result'.level, result'.size) = {})
        => /\ result'.status = "ok"
           /\ result'.mask = [size |-> result'.size, opaque |-> {}]
           /\ annotations' = annotations]_vars

C7_Witness ==
    /\ result.op = "collection.render_region"
    /\ result.size[1] = result.size[2]
    /\ Len(annotations) = 2
    /\ Meeting(annotations, result.location, result.level, result.size) = {}
    /\ result.status = "ok"
    /\ result.mask = [size |-> result.size, opaque |-> {}]

\* C8: Annotation.overlap is symmetric (the same test from the other box
\* gives the same answer) and is true exactly when the closed ranges of both
\* boxes meet on both axes, touching edges and corners included.
C8_OverlapSymmetric ==
    result.op = "overlap" =>
        LET a == annotations[result.index]
        IN  /\ result.value = Overlap(result.location, result.size, a.location, a.size)
            /\ result.value = BoxesIntersect(a.location, a.size,
                                             result.location, result.size)

C8_Witness ==
    /\ result.op = "overlap"
    /\ result.value
    /\ result.location[1] + result.size[1] = annotations[result.index].location[1]
    /\ result.location[2] + result.size[2] = annotations[result.index].location[2]

\* C10: Annotation.render_region on a region whose level-0 extent does not
\* intersect the annotation's bounding box returns, without error, an
\* all-transparent mask of exactly region_size.
C10_DisjointRegionTransparent ==
    (/\ result.op = "annotation.render_region"
     /\ result.index \notin Meeting(annotations, result.location, result.level,
                                    result.size))
        => /\ result.status = "ok"
           /\ result.mask = [size |-> result.size, opaque |-> {}]

-----------------------------------------------------------------------------
(* Properties of the tile builder *)

\* the stride of a call, from its arguments (overlap in quarters)
StrideOf(g) == (g.tile_size - ((g.tile_size * g.overlap) \div 4)) * (2 ^ g.level)

\* the grid cells of a call: multiples of the stride at which a tile of
\* tile_size * 2^level fits in the slide
GridCells(g) ==
    {cell \in {<<i * StrideOf(g), j * StrideOf(g)>> :
                  i \in 0..(dimensions[1] \div StrideOf(g)),
                  j \in 0..(dimensions[2] \div StrideOf(g))} :
        /\ cell[1] + g.tile_size * (2 ^ g.level) <= dimensions[1]
        /\ cell[2] + g.tile_size * (2 ^ g.level) <= dimensions[2]}

\* the bright pixels (green >= 220) of the base tile at a cell, counted one
\* by one, out of tile_size * tile_size
BrightPixels(g, cell) ==
    g.tile_size * Cardinality({i \in 0..(g.tile_size - 1) :
                                  cell[1] + i * (2 ^ g.level) >= glassFrom})

\* the base tile at a cell is at least 0.70 bright
TileIsWhite(g, cell) ==
    BrightPixels(g, cell) * 10 >= 7 * g.tile_size * g.tile_size

Passing(g) == {cell \in GridCells(g) : ~TileIsWhite(g, cell)}

\* how often a call has emitted the tuple (x, y, angle)
Emitted(g, cell, angle) ==
    Cardinality({i \in DOMAIN g.emitted : g.emitted[i] = <<cell[1], cell[2], angle>>})

\* C1: build emits exactly one base tuple (x, y, 0) for every grid cell that
\* passes the whiteness filter and no angle-0 tuple anywhere else; for a
\* 1024 x 1024 slide, tile_size 512, overlap 0, level 0 and nothing filtered
\* these are the 4 tuples at (0,0), (512,0), (0,512), (512,512).
C1_GridExhaustive ==
    LET g == gens[1]
    IN  (g.pc # "none" /\ StrideOf(g) > 0) =>
          /\ \A i \in DOMAIN g.emitted :
                g.emitted[i][3] = 0 =>
                    /\ <<g.emitted[i][1], g.emitted[i][2]>> \in Passing(g)
                    /\ \A j \in DOMAIN g.emitted : g.emitted[j] = g.emitted[i] => j = i
          /\ g.pc = "done" => \A cell \in Passing(g) : Emitted(g, cell, 0) = 1
          /\ (/\ g.pc = "done"
              /\ dimensions = <<1024, 1024>> /\ glassFrom >= 1024
              /\ g.tile_size = 512 /\ g.overlap = 0 /\ g.level = 0)
              => {g.emitted[i] : i \in {j \in DOMAIN g.emitted : g.emitted[j][3] = 0}}
                    = {<<0, 0, 0>>, <<512, 0, 0>>, <<0, 512, 0>>, <<512, 512, 0>>}

C1_Witness ==
    /\ gens[1].pc = "done"
    /\ dimensions = <<1024, 1024>> /\ glassFrom >= 1024
    /\ gens[1].tile_size = 512 /\ gens[1].overlap = 0 /\ gens[1].level = 0
    /\ ~gens[1].rotate
    /\ Len(gens[1].emitted) = 4

\* C2: a grid cell whose base tile has a fraction of green values >= 220 of
\* at least 0.70 (exactly 0.70 included) gets no tuple at all, base or
\* rotated, with rotate on or off.
C2_WhiteCellsSkipped ==
    \A c \in {1} : \A i \in DOMAIN gens[c].emitted :
        ~TileIsWhite(gens[c], <<gens[c].emitted[i][1], gens[c].emitted[i][2]>>)

C2_Witness ==
    /\ gens[1].pc = "done"
    /\ gens[1].rotate
    /\ \E cell \in GridCells(gens[1]) :
          /\ BrightPixels(gens[1], cell) * 10 = 7 * gens[1].tile_size * gens[1].tile_size
          /\ \A a \in {0, 15, 30, 45} : Emitted(gens[1], cell, a) = 0
    /\ \E cell \in GridCells(gens[1]) : Emitted(gens[1], cell, 45) = 1

\* the cell is within the level-scaled rotation margin of a slide edge
NearEdge(g, cell) ==
    LET m0 == RotationMargin(g.tile_size) * (2 ^ g.level)
        t0 == g.tile_size * (2 ^ g.level)
    IN  \/ cell[1] - m0 < 0
        \/ cell[2] - m0 < 0
        \/ cell[1] + t0 + m0 > dimensions[1]
        \/ cell[2] + t0 + m0 > dimensions[2]

\* C3: with rotate on, every grid cell that passes the filter gets its base
\* tuple and either no rotated tuple (the cell is within the margin of an
\* edge) or exactly one tuple for each of 15, 30 and 45 degrees.
C3_RotationsAllOrNone ==
    LET g == gens[1]
    IN  (g.pc = "done" /\ g.rotate /\ StrideOf(g) > 0) =>
          \A cell \in Passing(g) :
              /\ Emitted(g, cell, 0) = 1
              /\ NearEdge(g, cell) =>
                    \A a \in {15, 30, 45} : Emitted(g, cell, a) = 0
              /\ ~NearEdge(g, cell) =>
                    \A a \in {15, 30, 45} : Emitted(g, cell, a) = 1

C3_Witness ==
    /\ gens[1].pc = "done"
    /\ gens[1].rotate
    /\ \E cell \in Passing(gens[1]) :
          ~NearEdge(gens[1], cell) /\ Emitted(gens[1], cell, 30) = 1
    /\ \E cell \in Passing(gens[1]) :
          /\ NearEdge(gens[1], cell)
          /\ cell[2] + gens[1].tile_size * (2 ^ gens[1].level)
                + RotationMargin(gens[1].tile_size) * (2 ^ gens[1].level) > dimensions[2]
          /\ Emitted(gens[1], cell, 0) = 1

IsPrefix(s, t) == Len(s) <= Len(t) /\ \A i \in DOMAIN s : s[i] = t[i]

\* a generator run to its end with nothing else running
RECURSIVE RunAlone(_)
RunAlone(m) == IF Suspended(m.g) THEN RunAlone(Resume(m)) ELSE m

\* the call of generator g made alone on a new builder of the same slide
Alone(g) ==
    RunAlone([g |-> NewGenerator(g.builder,
                                 [level |-> g.level, tile_size |-> g.tile_size,
                                  overlap |-> g.overlap, rotate |-> g.rotate]),
              f |-> UnsetFields,
              anns |-> [i \in DOMAIN annotations |->
                            NewAnnotation(annotations[i].pixel_points)]]).g

\* C9: no session state crosses build calls: two calls advanced in any
\* interleaving, on one builder or on two, each read the regions and emit
\* the tuples they would read and emit alone.
C9_SessionsIsolated ==
    \A c \in Calls :
        gens[c].pc # "none" =>
            /\ IsPrefix(gens[c].reads, Alone(gens[c]).reads)
            /\ IsPrefix(gens[c].emitted, Alone(gens[c]).emitted)
            /\ gens[c].pc \in {"done", "raised"} =>
                    /\ gens[c].pc = Alone(gens[c]).pc
                    /\ gens[c].reads = Alone(gens[c]).reads
                    /\ gens[c].emitted = Alone(gens[c]).emitted

-----------------------------------------------------------------------------
(* Properties of single annotations *)

\* the distance from the polygon's points to the nearest edge of the
\* bounding box, per side: left, top, right, bottom
EdgeDistances(ann) ==
    LET xs == {ann.pixel_points[i][1] : i \in DOMAIN ann.pixel_points}
        ys == {ann.pixel_points[i][2] : i \in DOMAIN ann.pixel_points}
    IN  {x - ann.location[1] : x \in xs}
            \cup {y - ann.location[2] : y \in ys}
            \cup {ann.location[1] + ann.size[1] - x : x \in xs}
            \cup {ann.location[2] + ann.size[2] - y : y \in ys}

\* the polygon's axis-aligned box expanded by d on all sides
ExpandedBy(ann, d) ==
    LET xs == {ann.pixel_points[i][1] : i \in DOMAIN ann.pixel_points}
        ys == {ann.pixel_points[i][2] : i \in DOMAIN ann.pixel_points}
        min_x == CHOOSE x \in xs : \A z \in xs : x <= z
        max_x == CHOOSE x \in xs : \A z \in xs : x >= z
        min_y == CHOOSE y \in ys : \A z \in ys : y <= z
        max_y == CHOOSE y \in ys : \A z \in ys : y >= z
    IN  /\ ann.location = <<min_x - d, min_y - d>>
        /\ ann.size = <<max_x - min_x + 2 * d, max_y - min_y + 2 * d>>
        /\ \A e \in EdgeDistances(ann) : e >= d

\* C11, as the code has it: at construction an Annotation's bounding box is
\* the axis-aligned box of its polygon expanded by 8 px on all sides (the
\* fixed 16 px margin is split over the two sides of each axis): location =
\* (min_x - 8, min_y - 8), size = (max_x - min_x + 16, max_y - min_y + 16),
\* so every polygon point is at least 8 level-0 pixels from each edge; the
\* box does not change afterwards.
C11_BoundsHalfMargin ==
    \A i \in DOMAIN annotations : ExpandedBy(annotations[i], 8)

C11_Witness ==
    /\ result.op = "annotation.render_region"
    /\ Len(annotations) = 1
    /\ annotations[1].location = <<-11, -8>>
    /\ annotations[1].size = <<49, 28>>
    /\ 8 \in EdgeDistances(annotations[1])

\* C11, as stated: the bounding box is the polygon's box expanded by the
\* 16 px margin on all sides: location = (min_x - 16, min_y - 16), size =
\* (max_x - min_x + 32, max_y - min_y + 32), every point at least 16 px from
\* each edge.
C11_BoundsFullMargin ==
    \A i \in DOMAIN annotations : ExpandedBy(annotations[i], 16)

\* C12: the mask cache is keyed by level: a cached mask, if present, was
\* rendered at the annotation's current_level; render_region at a level other
\* than current_level clears the cache and renders anew, render_region at the
\* same level keeps the cached mask and does not render; the mask a call
\* returns is cut from a mask rendered at the call's level.
C12_CacheKeyedByLevel ==
    [][/\ \A i \in DOMAIN annotations' :
            annotations'[i].rendered # NoMask
                => annotations'[i].rendered.level = annotations'[i].current_level
       /\ result'.op = "annotation.render_region" =>
            LET before == annotations[result'.index]
                after  == annotations'[result'.index]
                level  == result'.level
            IN  /\ after.current_level = level
                /\ after.rendered = [level |-> level, size |-> RenderSize(before, level)]
                /\ before.current_level # level
                      => Renders(SetCurrentLevel(before, level))
                /\ (before.current_level = level /\ before.rendered # NoMask)
                      => /\ ~Renders(SetCurrentLevel(before, level))
                         /\ after.rendered = before.rendered
                /\ result'.status = "ok"
                      => result'.mask
                            = AnnRenderRegionMask(NewAnnotation(before.pixel_points),
                                                  result'.location, level,
                                                  result'.size)]_vars

C12_Witness ==
    /\ result.op = "annotation.render_region"
    /\ result.status = "ok"
    /\ result.level = 2
    /\ result.mask.opaque # {}
    /\ annotations[1].current_level = 2
    /\ annotations[1].rendered = [level |-> 2, size |-> <<18, 14>>]

\* C13: at every level at which an annotation's mask is rendered, no polygon
\* point maps, by (p - location) // 2^level, onto the flood-fill seed pixel
\* (0, 0) of the level-scaled raster, so the flood fill starts on an
\* exterior pixel that is not part of the boundary line.
C13_SeedOutsidePolygon ==
    \A i \in DOMAIN annotations :
        annotations[i].rendered # NoMask =>
            \A k \in DOMAIN annotations[i].pixel_points :
                PointsBoxRelative(annotations[i], annotations[i].rendered.level)[k]
                    # <<0, 0>>

\* both corners of a box returned by "A relative to B" lie in B's local frame
Clamped(box, size_b) ==
    /\ 0 <= box[1] /\ box[1] <= box[3] /\ box[3] <= size_b[1]
    /\ 0 <= box[2] /\ box[2] <= box[4] /\ box[4] <= size_b[2]

\* C14: for any two boxes, overlapping or not, both "A relative to B" boxes
\* of Annotation.render_region satisfy 0 <= x1 <= x2 <= size_b.width and
\* 0 <= y1 <= y2 <= size_b.height: the crop rectangle in the annotation's
\* mask and the paste position in the region are never negative, inverted
\* or outside B.
C14_RelativeBoxClamped ==
    result.op = "annotation.render_region" =>
        LET ann    == annotations[result.index]
            size_0 == SizeLevel0(result.size, result.level)
        IN  /\ Clamped(ARelativeToB(result.location, size_0, ann.location, ann.size),
                       ann.size)
            /\ Clamped(ARelativeToB(ann.location, ann.size, result.location, size_0),
                       size_0)

\* C15: for every tile_size >= 1 the rotation_margin m that build computes is
\* the least non-negative border with (tile_size + 2m)^2 >= 2 tile_size^2
\* (so (tile_size + 2(m-1))^2 < 2 tile_size^2 when m > 0); the crop rectangle
\* after rotation is (m, m, tile_size + m, tile_size + m), tile_size wide and
\* centred in the region of tile_size + 2m that is read for the rotations.
C15_RotationMarginMinimal ==
    \A c \in {1} :
        gens[c].pc \notin {"none", "created"} =>
            LET f  == builders[gens[c].builder]
                ts == gens[c].tile_size
                m  == f.rotation_margin
            IN  /\ f.tile_size = ts
                /\ m >= 0
                /\ (ts + 2 * m) * (ts + 2 * m) >= 2 * ts * ts
                /\ m > 0 => (ts + 2 * (m - 1)) * (ts + 2 * (m - 1)) < 2 * ts * ts
                /\ f.crop_coords = <<m, m, ts + m, ts + m>>
                /\ f.rotation_margin_level_0 = m * (2 ^ gens[c].level)
                /\ \A i \in DOMAIN gens[c].reads :
                        gens[c].reads[i][4] \in {ts, ts + 2 * m}

C15_Witness ==
    /\ gens[1].pc = "done"
    /\ gens[1].tile_size = 5
    /\ builders[1].rotation_margin = 2
    /\ builders[1].crop_coords = <<2, 2, 7, 7>>
    /\ \E i \in DOMAIN gens[1].reads : gens[1].reads[i][4] = 9
    /\ \E i \in DOMAIN gens[1].emitted : gens[1].emitted[i][3] = 45

\* C16: every region build requests from the slide, the base tile at (x, y)
\* and the enlarged region at (x - m0, y - m0) of size tile_size + 2m, lies
\* inside the slide: its level-0 location is >= 0 on both axes and location +
\* size * 2^level <= (width, height).
C16_ReadsInsideSlide ==
    \A c \in {1} : \A i \in DOMAIN gens[c].reads :
        LET read   == gens[c].reads[i]
            extent == read[4] * (2 ^ read[3])
        IN  /\ read[1] >= 0
            /\ read[2] >= 0
            /\ read[1] + extent <= dimensions[1]
            /\ read[2] + extent <= dimensions[2]

C16_Witness ==
    /\ gens[1].pc = "done"
    /\ gens[1].rotate
    /\ dimensions = <<30, 23>>
    /\ \E i \in DOMAIN gens[1].reads :
          /\ gens[1].reads[i] = <<7, 7, 0, 16>>
          /\ gens[1].reads[i][2] + 16 = dimensions[2]
    /\ \E i \in DOMAIN gens[1].reads : gens[1].reads[i] = <<20, 10, 0, 10>>

====
